---- MODULE Spec2Model ----
(***************************************************************************)
(* A model of data.py, the aggregation library over the breach-report      *)
(* table.  A table is a sequence of rows; a row maps column names to       *)
(* cells.  Every operation is one action: it reads the table (and its      *)
(* argument), and leaves its return value in `result` and what it printed  *)
(* in `stdout`.                                                            *)
(***************************************************************************)
EXTENDS Integers, Sequences, FiniteSets, TLC

VARIABLES
    exists,     \* whether the file at file_path / data_path can be read
    columns,    \* the column names the table has
    data,       \* the table: what read_csv yields, or the DataFrame passed in
    geoExists,  \* whether the boundary file at geojson_path can be read
    geo,        \* the 'name' column of the boundary file (create_us_heatmap)
    op,         \* the operation called last ("" before any call)
    arg,        \* its argument besides the table (threshold, year), else 0
    result,     \* what the call returned, or that it raised
    merged,     \* create_us_heatmap's joined table (a local of the call)
    stdout      \* what the call printed: "", "error" or "success"

vars == <<exists, columns, data, geoExists, geo, op, arg, result, merged, stdout>>

----------------------------------------------------------------------------
(* Bounds of the model. *)

\* the longest table whose rows differ in one column
MaxRows == 4
\* the longest table whose rows differ in two columns
MaxWide == 3

----------------------------------------------------------------------------
(* Cells.  A numeric column holds numbers, NaN (an empty cell) or, when it  *)
(* was never coerced, text.  A text column holds strings, NA for an empty   *)
(* cell.  A date is <<year, month>>, NaT when missing.                      *)

Num(n) == [tag |-> "num", n |-> n]
NaN == [tag |-> "nan", n |-> 0]
Text == [tag |-> "str", n |-> 0]
NA == ""
NaT == <<>>
BadDate == <<0>>

IsNum(c) == c.tag = "num"
IsText(c) == c.tag = "str"

cName == "Name of Covered Entity"
cDate == "Breach Submission Date"
cIA == "Individuals Affected"
cType == "Type of Breach"
cLoc == "Location of Breached Information"
cState == "State"
cYear == "Year"

CsvColumns == {cName, cDate, cIA, cType, cLoc, cState}
AllColumns == CsvColumns \cup {cYear}

\* dt.year of a parsed date
YearOf(d) == IF d = NaT THEN NaN ELSE Num(d[1])

Row(name, date, ia, type, loc, state) ==
    [c \in AllColumns |->
        CASE c = cName -> name
          [] c = cDate -> date
          [] c = cIA -> ia
          [] c = cType -> type
          [] c = cLoc -> loc
          [] c = cState -> state
          [] c = cYear -> YearOf(date)]

Tables(rows, max) == UNION {[1..n -> rows] : n \in 0..max}

\* data[c]: the column as a sequence of cells
Column(t, c) == [i \in 1..Len(t) |-> t[i][c]]

----------------------------------------------------------------------------
(* Return values. *)

DataFrame(rows) == [ret |-> "DataFrame", rows |-> rows]
None == [ret |-> "None", rows |-> <<>>]
Raised == [ret |-> "raise", rows |-> <<>>]
Pair(a, b) == [ret |-> "tuple", rows |-> <<a, b>>]
\* the pair (None, None)
NonePair == [ret |-> "(None, None)", rows |-> <<>>]

----------------------------------------------------------------------------
(* Sequence helpers. *)

RECURSIVE SumSeq(_)
SumSeq(s) == IF s = <<>> THEN 0 ELSE s[1] + SumSeq(Tail(s))

Count(s, v) == Cardinality({i \in 1..Len(s) : s[i] = v})

\* the distinct elements of s, in order of first appearance
RECURSIVE Unique(_)
Unique(s) ==
    IF s = <<>> THEN <<>>
    ELSE LET r == Unique(SubSeq(s, 1, Len(s) - 1))
             x == s[Len(s)]
         IN IF \E i \in 1..Len(r) : r[i] = x THEN r ELSE Append(r, x)

\* insert x into s, sorted by rank, after every element not ranked above it
RECURSIVE Insert(_, _, _)
Insert(s, x, rank) ==
    IF s = <<>> THEN <<x>>
    ELSE IF rank[s[1]] <= rank[x] THEN <<s[1]>> \o Insert(Tail(s), x, rank)
    ELSE <<x>> \o s

\* a stable sort of s, ascending by rank (a function from elements to integers)
RECURSIVE SortBy(_, _)
SortBy(s, rank) ==
    IF s = <<>> THEN <<>>
    ELSE Insert(SortBy(SubSeq(s, 1, Len(s) - 1), rank), s[Len(s)], rank)

Range(s) == {s[i] : i \in 1..Len(s)}

----------------------------------------------------------------------------
(* The pandas operations the library is written in. *)

\* a row of a derived table with two columns
Row2(k, kv, c, cv) == (k :> kv) @@ (c :> cv)


\* value_counts(dropna=False): the missing values counted as a value
ValueCounts_KeepNA(col, na, key) ==
    LET keys == Unique(col)
        rows == [i \in 1..Len(keys) |-> Row2(key, keys[i], "Count", Count(col, keys[i]))]
    IN SortBy(rows, [r \in Range(rows) |-> 0 - r["Count"]])

\* Series.value_counts().reset_index() with the columns named key and 'Count':
\* the missing values dropped, one row per distinct value, largest count first
ValueCounts(col, na, key) ==
    LET vals == SelectSeq(col, LAMBDA v : v # na)
        keys == Unique(vals)
        rows == [i \in 1..Len(keys) |-> Row2(key, keys[i], "Count", Count(vals, keys[i]))]
    IN SortBy(rows, [r \in Range(rows) |-> 0 - r["Count"]])

\* the order of the period and year keys
MonthRank(p) == p[1] * 12 + p[2]
YearRank(c) == c.n

\* floats that come out of a division: a ratio in lowest terms, NaN, or +-inf
RECURSIVE GCD(_, _)
GCD(a, b) == IF b = 0 THEN a ELSE GCD(b, a % b)
Abs(a) == IF a < 0 THEN 0 - a ELSE a
Ratio(a, b) ==
    LET g == GCD(Abs(a), b)
    IN [tag |-> "num", num |-> a \div g, den |-> b \div g]
FNaN == [tag |-> "nan", num |-> 0, den |-> 1]
FInf == [tag |-> "inf", num |-> 1, den |-> 1]
FNegInf == [tag |-> "inf", num |-> 0 - 1, den |-> 1]

\* a / b on floats
Div(a, b) ==
    IF b # 0 THEN Ratio(a, b)
    ELSE IF a = 0 THEN FNaN
    ELSE IF a > 0 THEN FInf ELSE FNegInf

\* f - k and f * k for an integer k > 0
Minus(f, k) == IF f.tag = "num" THEN Ratio(f.num - k * f.den, f.den) ELSE f
Times(f, k) == IF f.tag = "num" THEN Ratio(f.num * k, f.den) ELSE f


\* the change against the first row instead of the row before
PctChange_FromFirst(s) ==
    [i \in 1..Len(s) |-> IF i = 1 THEN FNaN ELSE Minus(Div(s[i], s[1]), 1)]

\* Series.pct_change(): data / data.shift(1) - 1, undefined on the first row
PctChange(s) ==
    [i \in 1..Len(s) |-> IF i = 1 THEN FNaN ELSE Minus(Div(s[i], s[i - 1]), 1)]

\* the body of a try: what the call returns and prints
Try(failed, value) ==
    IF failed THEN [result |-> None, stdout |-> "error"]
    ELSE [result |-> value, stdout |-> ""]

\* pd.to_datetime raises on a date it cannot parse
BadParse(t) == \E i \in 1..Len(t) : t[i][cDate] = BadDate

----------------------------------------------------------------------------
(* Counts by category. *)

summarize_covered_entity(ex, cols, t) ==
    Try(~ex \/ cName \notin cols,
        DataFrame(ValueCounts(Column(t, cName), NA, cName)))

summarize_breaches_by_location(ex, cols, t) ==
    Try(~ex \/ cLoc \notin cols,
        DataFrame(ValueCounts(Column(t, cLoc), NA, cLoc)))

----------------------------------------------------------------------------
(* Counts by time bucket. *)

\* dt.to_period('M')
MonthOf(d) == IF d = NaT THEN NaT ELSE <<d[1], d[2]>>


\* the sort left out: the rows stay in value_counts order
SortByMonth_Unsorted(rows) == rows

SortByMonth(rows) == SortBy(rows, [r \in Range(rows) |-> MonthRank(r["Month"])])

summarize_breaches_by_month(ex, cols, t) ==
    LET month == [i \in 1..Len(t) |-> MonthOf(t[i][cDate])]
        summary == ValueCounts(month, NaT, "Month")
    IN Try(~ex \/ cDate \notin cols \/ BadParse(t), DataFrame(SortByMonth(summary)))

SortByYear(rows) == SortBy(rows, [r \in Range(rows) |-> YearRank(r[cYear])])

\* summary[c] = percent, row by row
WithColumn(rows, c, vals) == [i \in 1..Len(rows) |-> rows[i] @@ (c :> vals[i])]

PercentIncrease(rows, c) ==
    LET pct == PctChange(Column(rows, c))
    IN WithColumn(rows, "Percent Increase", [i \in 1..Len(rows) |-> Times(pct[i], 100)])

summarize_breaches_by_year(ex, cols, t) ==
    LET year == [i \in 1..Len(t) |-> YearOf(t[i][cDate])]
        summary == SortByYear(ValueCounts(year, NaN, cYear))
    IN Try(~ex \/ cDate \notin cols \/ BadParse(t),
           DataFrame(PercentIncrease(summary, "Count")))

\* the group keys of data.groupby(key): the distinct non-missing values, sorted
GroupKeys(t, key, na, rank) ==
    SortBy(Unique(SelectSeq(Column(t, key), LAMBDA v : v # na)), rank)

YearRanks(t) == [c \in Range(Column(t, cYear)) |-> YearRank(c)]


\* a row for every calendar year from the first to the last, empty years included
GroupSizeByYear_EveryYear(t, c) ==
    LET ys == {k.n : k \in Range(Column(t, cYear)) \ {NaN}}
        keys == IF ys = {} THEN <<>>
                ELSE LET lo == CHOOSE y \in ys : \A z \in ys : y <= z
                         hi == CHOOSE y \in ys : \A z \in ys : z <= y
                     IN [i \in 1..(hi - lo + 1) |-> Num(lo + i - 1)]
    IN [i \in 1..Len(keys) |-> Row2(cYear, keys[i], c, Count(Column(t, cYear), keys[i]))]

\* data.groupby('Year').size().reset_index(name=c)
GroupSizeByYear(t, c) ==
    LET keys == GroupKeys(t, cYear, NaN, YearRanks(t))
    IN [i \in 1..Len(keys) |-> Row2(cYear, keys[i], c, Count(Column(t, cYear), keys[i]))]

count_breaches_by_year(cols, t) ==
    Try(cYear \notin cols, DataFrame(GroupSizeByYear(t, "Count of Breaches")))

count_breaches_by_year_with_percent_increase(cols, t) ==
    LET breaches_per_year == GroupSizeByYear(t, "Count of Breaches")
    IN Try(cYear \notin cols,
           DataFrame(PercentIncrease(breaches_per_year, "Count of Breaches")))

----------------------------------------------------------------------------
(* Sums, means and medians of individuals affected. *)

\* pd.to_numeric(errors='coerce'): what is not a number becomes NaN
ToNumeric(c) == IF IsNum(c) THEN c ELSE NaN
Coerce(t) == [i \in 1..Len(t) |-> [t[i] EXCEPT ![cIA] = ToNumeric(t[i][cIA])]]

\* the numbers of column 'Individuals Affected' in the rows of group k
Numbers(t, key, k) ==
    LET grp == SelectSeq(t, LAMBDA r : r[key] = k /\ IsNum(r[cIA]))
    IN [i \in 1..Len(grp) |-> grp[i][cIA].n]

\* whether the column holds text (object dtype: arithmetic on it raises)
HasText(t) == \E i \in 1..Len(t) : IsText(t[i][cIA])

\* the breach types in sort order
BreachTypes == <<"Hacking/IT Incident", "Theft", "Unauthorized Access/Disclosure">>
TypeRank(v) == CHOOSE i \in 1..Len(BreachTypes) : BreachTypes[i] = v
TypeRanks == [v \in Range(BreachTypes) |-> TypeRank(v)]

\* groupby(key)['Individuals Affected'].sum(): NaN skipped, 0 for no numbers
GroupSum(t, key, keys) ==
    [i \in 1..Len(keys) |->
        Row2(key, keys[i], "Total Individuals Affected", SumSeq(Numbers(t, key, keys[i])))]

summarize_individuals_affected_by_breach_type(ex, cols, t) ==
    LET d == Coerce(t)
    IN Try(~ex \/ cIA \notin cols \/ cType \notin cols,
           DataFrame(GroupSum(d, cType, GroupKeys(d, cType, NA, TypeRanks))))

\* data['Year'] = data['Breach Submission Date'].dt.year
WithYear(t) == [i \in 1..Len(t) |-> [t[i] EXCEPT ![cYear] = YearOf(t[i][cDate])]]

SumByYear(t) ==
    LET d == WithYear(Coerce(t))
    IN GroupSum(d, cYear, GroupKeys(d, cYear, NaN, YearRanks(d)))

summarize_individuals_affected_by_year(ex, cols, t) ==
    Try(~ex \/ cIA \notin cols \/ cDate \notin cols \/ BadParse(t),
        DataFrame(SumByYear(t)))

summarize_individuals_affected_by_year_with_percent_increase(ex, cols, t) ==
    Try(~ex \/ cIA \notin cols \/ cDate \notin cols \/ BadParse(t),
        DataFrame(PercentIncrease(SumByYear(t), "Total Individuals Affected")))

\* mean and median of a sequence of numbers, NaN when there is none
Mean(v) == IF v = <<>> THEN FNaN ELSE Ratio(SumSeq(v), Len(v))
Median(v) ==
    LET s == SortBy(v, [x \in Range(v) |-> x])
        n == Len(v)
    IN IF n = 0 THEN FNaN
       ELSE IF n % 2 = 1 THEN Ratio(s[(n + 1) \div 2], 1)
       ELSE Ratio(s[n \div 2] + s[n \div 2 + 1], 2)

\* groupby(key)['Individuals Affected'].agg(['median', 'mean']).reset_index()
GroupStats(t, key, keys) ==
    [i \in 1..Len(keys) |->
        (key :> keys[i]) @@ ("median" :> Median(Numbers(t, key, keys[i])))
                         @@ ("mean" :> Mean(Numbers(t, key, keys[i])))]

calculate_median_and_mean_impact(cols, t) ==
    LET breach_type_stats == GroupStats(t, cType, GroupKeys(t, cType, NA, TypeRanks))
        year_stats == GroupStats(t, cYear, GroupKeys(t, cYear, NaN, YearRanks(t)))
    IN IF cType \notin cols \/ cYear \notin cols \/ cIA \notin cols \/ HasText(t)
       THEN [result |-> NonePair, stdout |-> "error"]
       ELSE [result |-> Pair(breach_type_stats, year_stats), stdout |-> ""]

\* groupby('Type of Breach')['Individuals Affected'].mean().reset_index()
GroupMean(t, key, keys) ==
    [i \in 1..Len(keys) |->
        Row2(key, keys[i], "Average Individuals Affected", Mean(Numbers(t, key, keys[i])))]

analyze_correlation_between_method_and_impact(cols, t) ==
    Try(cType \notin cols \/ cIA \notin cols \/ HasText(t),
        DataFrame(GroupMean(t, cType, GroupKeys(t, cType, NA, TypeRanks))))

----------------------------------------------------------------------------
(* Filters and the cumulative total. *)

DefaultThreshold == 1000000


\* >= for >: a row at the threshold counted as an outlier
identify_outliers_AtLeast(cols, t, threshold) ==
    Try(cIA \notin cols \/ HasText(t),
        DataFrame(SelectSeq(t, LAMBDA r : IsNum(r[cIA]) /\ r[cIA].n >= threshold)))

\* data[data['Individuals Affected'] > threshold]: NaN > threshold is False,
\* text > threshold raises
identify_outliers(cols, t, threshold) ==
    Try(cIA \notin cols \/ HasText(t),
        DataFrame(SelectSeq(t, LAMBDA r : IsNum(r[cIA]) /\ r[cIA].n > threshold)))

\* Series.sum(): NaN skipped; text added to text concatenates, text added to a
\* number raises
ColumnSum(col) ==
    LET nums == SelectSeq(col, IsNum)
    IN Num(SumSeq([i \in 1..Len(nums) |-> nums[i].n]))

calculate_cumulative_impact(cols, t) ==
    LET col == Column(t, cIA)
        allText == \A i \in 1..Len(col) : IsText(col[i])
        total_affected == IF HasText(t) THEN Text ELSE ColumnSum(col)
    IN Try(cIA \notin cols \/ (HasText(t) /\ ~allText),
           DataFrame(<<[c \in {"Cumulative Impact"} |-> total_affected]>>))


\* the rows without a year dropped along with the excluded year
filter_data_exclude_year_DropNaN(cols, t, year_to_exclude) ==
    IF cYear \notin cols THEN [result |-> Raised, stdout |-> ""]
    ELSE [result |-> DataFrame(SelectSeq(t, LAMBDA r :
                         r[cYear] # NaN /\ r[cYear] # Num(year_to_exclude))),
          stdout |-> ""]

\* no try: a missing 'Year' column raises KeyError out of the call
filter_data_exclude_year(cols, t, year_to_exclude) ==
    IF cYear \notin cols THEN [result |-> Raised, stdout |-> ""]
    ELSE [result |-> DataFrame(SelectSeq(t, LAMBDA r : r[cYear] # Num(year_to_exclude))),
          stdout |-> ""]

\* groupby(['Year', 'Type of Breach']).size().reset_index(name='Count')
analyze_method_trends(cols, t) ==
    LET both == SelectSeq(t, LAMBDA r : r[cYear] # NaN /\ r[cType] # NA)
        pairs == Unique([i \in 1..Len(both) |-> <<both[i][cYear], both[i][cType]>>])
        keys == SortBy(pairs, [p \in Range(pairs) |->
                                  YearRank(p[1]) * (Len(BreachTypes) + 1) + TypeRank(p[2])])
        size(p) == Cardinality({i \in 1..Len(both) :
                                   both[i][cYear] = p[1] /\ both[i][cType] = p[2]})
    IN Try(cYear \notin cols \/ cType \notin cols,
           DataFrame([i \in 1..Len(keys) |->
               (cYear :> keys[i][1]) @@ (cType :> keys[i][2]) @@ ("Count" :> size(keys[i]))]))

----------------------------------------------------------------------------
(* The heatmap and the CSV export. *)

state_abbreviation_to_name ==
    ("AL" :> "Alabama") @@ ("AK" :> "Alaska") @@ ("AZ" :> "Arizona") @@
    ("AR" :> "Arkansas") @@ ("CA" :> "California") @@ ("CO" :> "Colorado") @@
    ("CT" :> "Connecticut") @@ ("DE" :> "Delaware") @@ ("FL" :> "Florida") @@
    ("GA" :> "Georgia") @@ ("HI" :> "Hawaii") @@ ("ID" :> "Idaho") @@
    ("IL" :> "Illinois") @@ ("IN" :> "Indiana") @@ ("IA" :> "Iowa") @@
    ("KS" :> "Kansas") @@ ("KY" :> "Kentucky") @@ ("LA" :> "Louisiana") @@
    ("ME" :> "Maine") @@ ("MD" :> "Maryland") @@ ("MA" :> "Massachusetts") @@
    ("MI" :> "Michigan") @@ ("MN" :> "Minnesota") @@ ("MS" :> "Mississippi") @@
    ("MO" :> "Missouri") @@ ("MT" :> "Montana") @@ ("NE" :> "Nebraska") @@
    ("NV" :> "Nevada") @@ ("NH" :> "New Hampshire") @@ ("NJ" :> "New Jersey") @@
    ("NM" :> "New Mexico") @@ ("NY" :> "New York") @@ ("NC" :> "North Carolina") @@
    ("ND" :> "North Dakota") @@ ("OH" :> "Ohio") @@ ("OK" :> "Oklahoma") @@
    ("OR" :> "Oregon") @@ ("PA" :> "Pennsylvania") @@ ("RI" :> "Rhode Island") @@
    ("SC" :> "South Carolina") @@ ("SD" :> "South Dakota") @@ ("TN" :> "Tennessee") @@
    ("TX" :> "Texas") @@ ("UT" :> "Utah") @@ ("VT" :> "Vermont") @@
    ("VA" :> "Virginia") @@ ("WA" :> "Washington") @@ ("WV" :> "West Virginia") @@
    ("WI" :> "Wisconsin") @@ ("WY" :> "Wyoming") @@ ("DC" :> "District of Columbia")

\* Series.map(dict): a code the table lacks maps to a missing value
MapState(code) ==
    IF code \in DOMAIN state_abbreviation_to_name
    THEN state_abbreviation_to_name[code] ELSE NA

\* the rows of a sequence of sequences, one after the other
RECURSIVE Flatten(_)
Flatten(ss) == IF ss = <<>> THEN <<>> ELSE ss[1] \o Flatten(Tail(ss))


\* how='inner': the regions without a record dropped
MergeLeft_Inner(names, right) ==
    Flatten([i \in 1..Len(names) |->
        LET hits == SelectSeq(right, LAMBDA r : r[cState] = names[i])
        IN [j \in 1..Len(hits) |->
               ("name" :> names[i]) @@ (cState :> hits[j][cState])
                                    @@ ("Count" :> Num(hits[j]["Count"]))]])

\* us_states.merge(right, left_on='name', right_on='State', how='left'): every
\* left row once per right row with its name, once with NaN when there is none
MergeLeft(names, right) ==
    Flatten([i \in 1..Len(names) |->
        LET hits == SelectSeq(right, LAMBDA r : r[cState] = names[i])
        IN IF hits = <<>>
           THEN <<("name" :> names[i]) @@ (cState :> NA) @@ ("Count" :> NaN)>>
           ELSE [j \in 1..Len(hits) |->
                    ("name" :> names[i]) @@ (cState :> hits[j][cState])
                                         @@ ("Count" :> Num(hits[j]["Count"]))]])

\* merged['Count'].fillna(0)
FillNa(rows) ==
    [i \in 1..Len(rows) |->
        [rows[i] EXCEPT !["Count"] = IF rows[i]["Count"] = NaN THEN 0 ELSE rows[i]["Count"].n]]

StateIncidents(t) ==
    ValueCounts([i \in 1..Len(t) |-> MapState(t[i][cState])], NA, cState)

\* the joined table the map is drawn from; the call returns nothing
create_us_heatmap(ex, cols, t, geoOk, names, canSave) ==
    LET failed == ~ex \/ cState \notin cols \/ ~geoOk \/ ~canSave
    IN [result |-> None,
        merged |-> IF ~ex \/ cState \notin cols \/ ~geoOk THEN <<>>
                   ELSE FillNa(MergeLeft(names, StateIncidents(t))),
        stdout |-> IF failed THEN "error" ELSE "success"]

\* dataframe.to_csv(output_path): fails on None and on a path it cannot write
save_to_csv(dataframe, canSave) ==
    [result |-> None,
     stdout |-> IF dataframe.ret = "DataFrame" /\ canSave THEN "success" ELSE "error"]

----------------------------------------------------------------------------
(* The calls.  Each action is one call of one function on the table.        *)

Call(name, a, out, m) ==
    /\ op' = name
    /\ arg' = a
    /\ result' = out.result
    /\ stdout' = out.stdout
    /\ merged' = m
    /\ UNCHANGED <<exists, columns, data, geoExists, geo>>

SummarizeCoveredEntity ==
    Call("summarize_covered_entity", 0,
         summarize_covered_entity(exists, columns, data), <<>>)

SummarizeBreachesByLocation ==
    Call("summarize_breaches_by_location", 0,
         summarize_breaches_by_location(exists, columns, data), <<>>)

SummarizeBreachesByMonth ==
    Call("summarize_breaches_by_month", 0,
         summarize_breaches_by_month(exists, columns, data), <<>>)

SummarizeBreachesByYear ==
    Call("summarize_breaches_by_year", 0,
         summarize_breaches_by_year(exists, columns, data), <<>>)

CountBreachesByYear ==
    Call("count_breaches_by_year", 0, count_breaches_by_year(columns, data), <<>>)

CountBreachesByYearWithPercentIncrease ==
    Call("count_breaches_by_year_with_percent_increase", 0,
         count_breaches_by_year_with_percent_increase(columns, data), <<>>)

SummarizeIndividualsAffectedByBreachType ==
    Call("summarize_individuals_affected_by_breach_type", 0,
         summarize_individuals_affected_by_breach_type(exists, columns, data), <<>>)

SummarizeIndividualsAffectedByYear ==
    Call("summarize_individuals_affected_by_year", 0,
         summarize_individuals_affected_by_year(exists, columns, data), <<>>)

SummarizeIndividualsAffectedByYearWithPercentIncrease ==
    Call("summarize_individuals_affected_by_year_with_percent_increase", 0,
         summarize_individuals_affected_by_year_with_percent_increase(exists, columns, data),
         <<>>)

CalculateMedianAndMeanImpact ==
    Call("calculate_median_and_mean_impact", 0,
         calculate_median_and_mean_impact(columns, data), <<>>)

\* the thresholds a caller passes; the default when it passes none
Thresholds == {2, 3, DefaultThreshold}

IdentifyOutliers ==
    \E threshold \in Thresholds :
        Call("identify_outliers", threshold,
             identify_outliers(columns, data, threshold), <<>>)

CalculateCumulativeImpact ==
    Call("calculate_cumulative_impact", 0,
         calculate_cumulative_impact(columns, data), <<>>)

AnalyzeCorrelationBetweenMethodAndImpact ==
    Call("analyze_correlation_between_method_and_impact", 0,
         analyze_correlation_between_method_and_impact(columns, data), <<>>)

AnalyzeMethodTrends ==
    Call("analyze_method_trends", 0, analyze_method_trends(columns, data), <<>>)

Years == {2019, 2020, 2022}

FilterDataExcludeYear ==
    \E year_to_exclude \in Years :
        Call("filter_data_exclude_year", year_to_exclude,
             filter_data_exclude_year(columns, data, year_to_exclude), <<>>)

\* canSave: whether plt.savefig(output_path) can write the image
CreateUsHeatmap ==
    \E canSave \in BOOLEAN :
        LET out == create_us_heatmap(exists, columns, data, geoExists, geo, canSave)
        IN Call("create_us_heatmap", IF canSave THEN 1 ELSE 0, out, out.merged)

SaveToCsv ==
    \E canSave \in BOOLEAN :
        Call("save_to_csv", IF canSave THEN 1 ELSE 0, save_to_csv(result, canSave), <<>>)

----------------------------------------------------------------------------
(* The tables the specifications start from.  A specification varies the    *)
(* columns its operations read and holds the others at one value.           *)

Names == {"A", "B", NA}
Locations == {"Email", "Network Server", NA}
Dates == {<<2019, 1>>, <<2019, 2>>, <<2020, 1>>, <<2022, 1>>, NaT}
Impacts == {Num(0), Num(3), Text}
Sizes == {Num(2), Num(DefaultThreshold), Num(DefaultThreshold + 1), NaN, Text}
States == {"AL", "AK", "PR", NA}
Regions == {"Alabama", "Alaska", "Puerto Rico"}

CatRows == {Row(n, <<2019, 1>>, Num(3), "Theft", l, "AL") : n \in Names, l \in Locations}
DateRows == {Row("A", d, Num(3), "Theft", "Email", "AL") : d \in Dates}
YearRows ==
    {Row("A", d, ia, "Theft", "Email", "AL") : d \in Dates \ {<<2019, 2>>}, ia \in Impacts}

SizeRows == {Row(n, <<2019, 1>>, ia, "Theft", "Email", "AL") : n \in {"A", "B"}, ia \in Sizes}
GroupRows ==
    {Row("A", <<2019, 1>>, ia, BreachTypes[k], "Email", "AL") :
        k \in 1..2, ia \in {Num(1), Num(4), NaN, Text}}
FilterRows == {Row(n, d, Num(3), "Theft", "Email", "AL") : n \in {"A", "B"}, d \in Dates}
StateRows == {Row("A", <<2019, 1>>, Num(3), "Theft", "Email", st) : st \in States}
ErrorRows ==
    {Row("A", <<2019, 1>>, Num(3), "Theft", "Email", "AL"),
     Row("B", BadDate, Num(3), "Theft", "Email", "AK"),
     Row("B", <<2020, 1>>, Text, "Hacking/IT Incident", "Email", "AK")}

Start(tables) ==
    /\ exists = TRUE
    /\ columns = AllColumns
    /\ data \in tables
    /\ geoExists = TRUE
    /\ geo = <<>>
    /\ op = ""
    /\ arg = 0
    /\ result = None
    /\ merged = <<>>
    /\ stdout = ""

InitCat == Start(Tables(CatRows, MaxWide))
NextCat == SummarizeCoveredEntity \/ SummarizeBreachesByLocation
SpecCat == InitCat /\ [][NextCat]_vars

InitCount == Start(Tables(DateRows, MaxRows))
NextCount ==
    \/ SummarizeBreachesByMonth
    \/ SummarizeBreachesByYear
    \/ CountBreachesByYear
    \/ CountBreachesByYearWithPercentIncrease
SpecCount == InitCount /\ [][NextCount]_vars

InitSum == Start(Tables(YearRows, MaxWide))
NextSum ==
    \/ SummarizeBreachesByYear
    \/ CountBreachesByYearWithPercentIncrease
    \/ SummarizeIndividualsAffectedByYear
    \/ SummarizeIndividualsAffectedByYearWithPercentIncrease
SpecSum == InitSum /\ [][NextSum]_vars

InitImpact == Start(Tables(SizeRows, MaxWide))
NextImpact == IdentifyOutliers \/ CalculateCumulativeImpact
SpecImpact == InitImpact /\ [][NextImpact]_vars

InitGroup == Start(Tables(GroupRows, MaxWide))
NextGroup ==
    \/ SummarizeIndividualsAffectedByBreachType
    \/ CalculateMedianAndMeanImpact
    \/ AnalyzeCorrelationBetweenMethodAndImpact
SpecGroup == InitGroup /\ [][NextGroup]_vars

InitFilter == Start(Tables(FilterRows, MaxWide))
NextFilter == FilterDataExcludeYear \/ CountBreachesByYear
SpecFilter == InitFilter /\ [][NextFilter]_vars

\* the longest boundary file
MaxRegions == 2

InitHeat ==
    /\ exists = TRUE
    /\ columns = AllColumns
    /\ data \in Tables(StateRows, MaxWide)
    /\ geoExists \in BOOLEAN
    /\ geo \in UNION {[1..n -> Regions] : n \in 0..MaxRegions}
    /\ op = ""
    /\ arg = 0
    /\ result = None
    /\ merged = <<>>
    /\ stdout = ""
NextHeat == CreateUsHeatmap
SpecHeat == InitHeat /\ [][NextHeat]_vars

\* the longest table among the inputs that fail
MaxFailing == 2

\* every operation, on inputs that fail as well: a file that cannot be read, a
\* table that lacks a column, a date that does not parse, a text cell
InitAll ==
    /\ exists \in BOOLEAN
    /\ columns \in {AllColumns} \cup {AllColumns \ {c} : c \in AllColumns}
    /\ data \in Tables(ErrorRows, MaxFailing)
    /\ geoExists \in BOOLEAN
    /\ geo = <<"Alabama">>
    /\ op = ""
    /\ arg = 0
    /\ result = None
    /\ merged = <<>>
    /\ stdout = ""
NextAll ==
    \/ SummarizeCoveredEntity
    \/ SummarizeBreachesByLocation
    \/ SummarizeBreachesByMonth
    \/ SummarizeBreachesByYear
    \/ CountBreachesByYear
    \/ CountBreachesByYearWithPercentIncrease
    \/ SummarizeIndividualsAffectedByBreachType
    \/ SummarizeIndividualsAffectedByYear
    \/ SummarizeIndividualsAffectedByYearWithPercentIncrease
    \/ CalculateMedianAndMeanImpact
    \/ IdentifyOutliers
    \/ CalculateCumulativeImpact
    \/ AnalyzeCorrelationBetweenMethodAndImpact
    \/ AnalyzeMethodTrends
    \/ FilterDataExcludeYear
    \/ CreateUsHeatmap
    \/ SaveToCsv
Spec == InitAll /\ [][NextAll]_vars

----------------------------------------------------------------------------
(* Properties. *)

Rows == result.rows
NonMissing(c, na) == {i \in 1..Len(data) : data[i][c] # na}

\* C5: a count by category (entity name, breach location) has one row per
\* distinct non-null value of the column, and its Count column sums to the
\* number of input rows whose value is non-null.
CountByCategory(name, c) ==
    op = name =>
        /\ result.ret = "DataFrame"
        /\ Range(Column(Rows, c)) = {data[i][c] : i \in NonMissing(c, NA)}
        /\ Len(Rows) = Cardinality({data[i][c] : i \in NonMissing(c, NA)})
        /\ SumSeq(Column(Rows, "Count")) = Cardinality(NonMissing(c, NA))

C5_CountByCategory ==
    /\ CountByCategory("summarize_covered_entity", cName)
    /\ CountByCategory("summarize_breaches_by_location", cLoc)

C5_Witness ==
    /\ op = "summarize_covered_entity"
    /\ Len(data) = 3
    /\ Cardinality(NonMissing(cName, NA)) = 2
    /\ Len(Rows) = 1
    /\ Rows[1]["Count"] = 2

\* C7: a count by month or year has exactly one row per bucket that occurs in
\* the data, each with the number of records whose date falls in the bucket,
\* and the rows are in strictly ascending bucket order whatever the input
\* order and the counts.
MonthBefore(p, q) == p[1] < q[1] \/ (p[1] = q[1] /\ p[2] < q[2])

C7_CountByTimeBucket ==
    /\ op = "summarize_breaches_by_month" =>
        /\ result.ret = "DataFrame"
        /\ Range(Column(Rows, "Month")) = {data[i][cDate] : i \in NonMissing(cDate, NaT)}
        /\ Len(Rows) = Cardinality({data[i][cDate] : i \in NonMissing(cDate, NaT)})
        /\ \A n \in 1..Len(Rows) :
              Rows[n]["Count"] =
                  Cardinality({i \in 1..Len(data) : data[i][cDate] = Rows[n]["Month"]})
        /\ \A m, n \in 1..Len(Rows) :
              m < n => MonthBefore(Rows[m]["Month"], Rows[n]["Month"])
    /\ op = "summarize_breaches_by_year" =>
        /\ result.ret = "DataFrame"
        /\ {Rows[n][cYear].n : n \in 1..Len(Rows)}
               = {data[i][cDate][1] : i \in NonMissing(cDate, NaT)}
        /\ Len(Rows) = Cardinality({data[i][cDate][1] : i \in NonMissing(cDate, NaT)})
        /\ \A n \in 1..Len(Rows) :
              Rows[n]["Count"] =
                  Cardinality({i \in NonMissing(cDate, NaT) :
                                  data[i][cDate][1] = Rows[n][cYear].n})
        /\ \A m, n \in 1..Len(Rows) : m < n => Rows[m][cYear].n < Rows[n][cYear].n

C7_Witness ==
    /\ op = "summarize_breaches_by_month"
    /\ Len(data) = 3
    /\ data[1][cDate] = <<2020, 1>>
    /\ data[3][cDate] = <<2019, 2>>
    /\ Len(Rows) = 2
    /\ Rows[1]["Count"] < Rows[2]["Count"]

\* C1: in a count by year with percent increase, the rows are ascending by
\* year, the first row's Percent Increase is undefined, and every later row's
\* is (count[n] - count[n-1]) / count[n-1] * 100 against the row before it.
PercentOfPrevious(name, c) ==
    op = name =>
        /\ result.ret = "DataFrame"
        /\ \A m, n \in 1..Len(Rows) : m < n => Rows[m][cYear].n < Rows[n][cYear].n
        /\ \A n \in 1..Len(Rows) :
              LET pct == Rows[n]["Percent Increase"]
              IN IF n = 1 THEN pct.tag = "nan"
                 ELSE /\ pct.tag = "num"
                      /\ pct.num * Rows[n - 1][c]
                             = pct.den * (Rows[n][c] - Rows[n - 1][c]) * 100

C1_PercentIncrease ==
    /\ PercentOfPrevious("summarize_breaches_by_year", "Count")
    /\ PercentOfPrevious("count_breaches_by_year_with_percent_increase", "Count of Breaches")

\* years [2019, 2019, 2020]: counts 2 and 1, -50.0 for 2020
C1_Witness ==
    /\ op = "summarize_breaches_by_year"
    /\ [i \in 1..Len(data) |-> YearOf(data[i][cDate])] = <<Num(2019), Num(2019), Num(2020)>>
    /\ Column(Rows, "Count") = <<2, 1>>
    /\ Rows[2]["Percent Increase"] = [tag |-> "num", num |-> 0 - 50, den |-> 1]

\* C10: every row of a count by year has a count of at least 1, so every row
\* after the first has a finite Percent Increase; a row without one occurs
\* only in the sum by year, after a year whose total is 0.
CountOps ==
    {"summarize_breaches_by_year", "count_breaches_by_year_with_percent_increase"}
CountColumn == IF op = "summarize_breaches_by_year" THEN "Count" ELSE "Count of Breaches"
SumOp == "summarize_individuals_affected_by_year_with_percent_increase"

C10_CountNeverZero ==
    /\ op \in CountOps =>
          \A n \in 1..Len(Rows) : Rows[n][CountColumn] >= 1
    /\ op \in CountOps =>
          \A n \in 2..Len(Rows) : Rows[n]["Percent Increase"].tag = "num"
    /\ op = SumOp =>
          \A n \in 2..Len(Rows) :
              Rows[n]["Percent Increase"].tag # "num"
                  <=> Rows[n - 1]["Total Individuals Affected"] = 0

\* one table on which the count's percentages are all finite and the sum's are not
C10_Witness ==
    /\ op = "count_breaches_by_year_with_percent_increase"
    /\ Len(Rows) = 3
    /\ \A n \in 2..3 : Rows[n]["Percent Increase"].tag = "num"
    /\ LET sums == summarize_individuals_affected_by_year_with_percent_increase(
                       exists, columns, data).result.rows
       IN /\ sums[1]["Total Individuals Affected"] = 0
          /\ sums[2]["Percent Increase"].tag = "nan"
          /\ sums[3]["Percent Increase"].tag = "inf"

\* C2: every operation catches every failure: when the file cannot be
\* loaded or the table lacks a column the operation reads, the call prints a
\* diagnostic and returns a null result, and no call raises to its caller.
FileOps ==
    {"summarize_covered_entity", "summarize_breaches_by_location",
     "summarize_breaches_by_month", "summarize_breaches_by_year",
     "summarize_individuals_affected_by_breach_type",
     "summarize_individuals_affected_by_year",
     "summarize_individuals_affected_by_year_with_percent_increase",
     "create_us_heatmap"}

Reads ==
    [o \in {"save_to_csv"} |-> {}]
    @@ ("summarize_covered_entity" :> {cName})
    @@ ("summarize_breaches_by_location" :> {cLoc})
    @@ ("summarize_breaches_by_month" :> {cDate})
    @@ ("summarize_breaches_by_year" :> {cDate})
    @@ ("summarize_individuals_affected_by_breach_type" :> {cIA, cType})
    @@ ("summarize_individuals_affected_by_year" :> {cIA, cDate})
    @@ ("summarize_individuals_affected_by_year_with_percent_increase" :> {cIA, cDate})
    @@ ("calculate_median_and_mean_impact" :> {cType, cYear, cIA})
    @@ ("identify_outliers" :> {cIA})
    @@ ("calculate_cumulative_impact" :> {cIA})
    @@ ("analyze_correlation_between_method_and_impact" :> {cType, cIA})
    @@ ("analyze_method_trends" :> {cYear, cType})
    @@ ("filter_data_exclude_year" :> {cYear})
    @@ ("count_breaches_by_year" :> {cYear})
    @@ ("count_breaches_by_year_with_percent_increase" :> {cYear})
    @@ ("create_us_heatmap" :> {cState})

CannotLoad == (op \in FileOps /\ ~exists) \/ (op = "create_us_heatmap" /\ ~geoExists)
LacksColumn == ~(Reads[op] \subseteq columns)
IsNull(r) == r.ret \in {"None", "(None, None)"}

C2_CatchAll ==
    op # "" =>
        /\ result.ret # "raise"
        /\ (CannotLoad \/ LacksColumn) => (IsNull(result) /\ stdout = "error")

\* the claim holds of every operation but the exclude-year filter
C2_AllButExcludeYear ==
    (op # "" /\ op # "filter_data_exclude_year") =>
        /\ result.ret # "raise"
        /\ (CannotLoad \/ LacksColumn) => (IsNull(result) /\ stdout = "error")

\* C3: calculate_cumulative_impact returns a one-row table whose value is the
\* sum of the numeric individuals-affected values; rows whose value is text
\* or missing are ignored and cause no failure.
NumericTotal ==
    SumSeq([i \in 1..Len(data) |-> IF IsNum(data[i][cIA]) THEN data[i][cIA].n ELSE 0])

C3_CumulativeTotal ==
    op = "calculate_cumulative_impact" =>
        /\ result.ret = "DataFrame"
        /\ Len(Rows) = 1
        /\ Rows[1]["Cumulative Impact"] = Num(NumericTotal)

\* what holds: the same, of the tables without a text cell
C3_TotalWithoutText ==
    (op = "calculate_cumulative_impact" /\ ~HasText(data)) =>
        /\ result.ret = "DataFrame"
        /\ Len(Rows) = 1
        /\ Rows[1]["Cumulative Impact"] = Num(NumericTotal)

\* C4: identify_outliers returns exactly the rows whose individuals-affected
\* value is strictly greater than the threshold, each unmodified (a row at
\* the threshold or with a missing value is left out); a larger threshold
\* returns a subset; no threshold means 1,000,000.  Stated of the tables
\* whose cells are numbers or missing.
Exceeds(r, threshold) == r[cIA].tag = "num" /\ r[cIA].n > threshold
SubBag(a, b) == \A r \in Range(a) : Count(a, r) <= Count(b, r)

C4_Outliers ==
    (op = "identify_outliers" /\ ~HasText(data)) =>
        /\ result.ret = "DataFrame"
        /\ \A r \in Range(data) \cup Range(Rows) :
              Count(Rows, r) = IF Exceeds(r, arg) THEN Count(data, r) ELSE 0
        /\ \A larger \in Thresholds :
              arg <= larger => SubBag(identify_outliers(columns, data, larger).result.rows, Rows)

C4_Witness ==
    /\ op = "identify_outliers"
    /\ arg = DefaultThreshold
    /\ Column(data, cIA) = <<Num(DefaultThreshold), NaN, Num(DefaultThreshold + 1)>>
    /\ Rows = <<data[3]>>

\* C6: a non-numeric individuals-affected value adds nothing to its group's
\* aggregate: the sum by breach type is the sum of the group's numbers, and
\* the mean by breach type divides that sum by the number of the group's
\* numbers, not of its rows.
GroupOf(k) == {i \in 1..Len(data) : data[i][cType] = k}
GroupNumbers(k) == {i \in GroupOf(k) : IsNum(data[i][cIA])}
GroupTotal(k) ==
    SumSeq([i \in 1..Len(data) |->
               IF i \in GroupNumbers(k) THEN data[i][cIA].n ELSE 0])
MeanIsTotalOverNumbers(rows, c) ==
    \A n \in 1..Len(rows) :
        LET k == rows[n][cType]
        IN IF GroupNumbers(k) = {} THEN rows[n][c].tag = "nan"
           ELSE /\ rows[n][c].tag = "num"
                /\ rows[n][c].num * Cardinality(GroupNumbers(k))
                       = rows[n][c].den * GroupTotal(k)

C6_NonNumericIgnored ==
    /\ op = "summarize_individuals_affected_by_breach_type" =>
          /\ result.ret = "DataFrame"
          /\ \A n \in 1..Len(Rows) :
                Rows[n]["Total Individuals Affected"] = GroupTotal(Rows[n][cType])
    /\ op = "analyze_correlation_between_method_and_impact" =>
          /\ result.ret = "DataFrame"
          /\ MeanIsTotalOverNumbers(Rows, "Average Individuals Affected")
    /\ op = "calculate_median_and_mean_impact" =>
          /\ result.ret = "tuple"
          /\ MeanIsTotalOverNumbers(Rows[1], "mean")

\* what holds: the same, of the tables whose non-numeric cells are missing
\* values, and of the sum by breach type (which coerces) on every table
C6_MissingIgnored ==
    /\ op = "summarize_individuals_affected_by_breach_type" =>
          /\ result.ret = "DataFrame"
          /\ \A n \in 1..Len(Rows) :
                Rows[n]["Total Individuals Affected"] = GroupTotal(Rows[n][cType])
    /\ (op = "analyze_correlation_between_method_and_impact" /\ ~HasText(data)) =>
          /\ result.ret = "DataFrame"
          /\ MeanIsTotalOverNumbers(Rows, "Average Individuals Affected")
    /\ (op = "calculate_median_and_mean_impact" /\ ~HasText(data)) =>
          /\ result.ret = "tuple"
          /\ MeanIsTotalOverNumbers(Rows[1], "mean")

\* C8: filter_data_exclude_year returns the rows whose Year differs from the
\* excluded year, in their order and unchanged, none whose Year equals it,
\* and leaves the table as it was; with no row of that year it returns the
\* table.
Kept(t, y) == {i \in 1..Len(t) : t[i][cYear] # Num(y)}
KthKept(t, y, k) ==
    CHOOSE i \in Kept(t, y) : Cardinality({j \in Kept(t, y) : j <= i}) = k

C8_ExcludeYear ==
    [][op' = "filter_data_exclude_year" =>
          /\ data' = data
          /\ result'.ret = "DataFrame"
          /\ Len(result'.rows) = Cardinality(Kept(data, arg'))
          /\ \A k \in 1..Len(result'.rows) : result'.rows[k] = data[KthKept(data, arg', k)]
          /\ \A k \in 1..Len(result'.rows) : result'.rows[k][cYear] # Num(arg')
          /\ (Kept(data, arg') = 1..Len(data)) => result'.rows = data]_vars

C8_Witness ==
    /\ op = "filter_data_exclude_year"
    /\ arg = 2020
    /\ Column(data, cYear) = <<Num(2022), Num(2020), NaN>>
    /\ Rows = <<data[1], data[3]>>

\* C9: create_us_heatmap's joined table has exactly one row per boundary
\* region, whose Count is the number of records whose state code the fixed
\* table maps to the region's name, zero when there is none; a record whose
\* code is not in the table, or maps to no region, adds no row and no count.
MapsTo(code, name) ==
    code \in DOMAIN state_abbreviation_to_name /\ state_abbreviation_to_name[code] = name

C9_Heatmap ==
    (op = "create_us_heatmap" /\ geoExists) =>
        /\ Len(merged) = Len(geo)
        /\ \A i \in 1..Len(merged) :
              /\ merged[i]["name"] = geo[i]
              /\ merged[i]["Count"] =
                     Cardinality({j \in 1..Len(data) : MapsTo(data[j][cState], geo[i])})

\* a region without a record, a record whose code maps to no region of the
\* file, and one whose code is not in the table
C9_Witness ==
    /\ op = "create_us_heatmap"
    /\ geoExists
    /\ geo = <<"Puerto Rico", "Alabama">>
    /\ Column(data, cState) = <<"AL", "AK", "PR">>
    /\ Column(merged, "Count") = <<0, 1>>

====
